---- MODULE Spec2Model ----
(***************************************************************************)
(* Model of amazon-rds-init-cdk.                                           *)
(*                                                                         *)
(*  - lib/resource-initializer.ts: the CdkResourceInitializer constructor  *)
(*    (function, payload, physicalResIdHash, sdkCall, AwsCustomResource).  *)
(*  - demos/rds-init-example.ts: the example stack (database instance,     *)
(*    initializer, dependency of the custom resource on the database).     *)
(*  - demos/rds-init-fn-code/index.js: the handler, getSecretValue, query. *)
(*                                                                         *)
(* The services the repository only configures (the stack deployment       *)
(* engine, the custom resource provider, the function runtime, the secret  *)
(* store, the database client) are the environment: their steps are        *)
(* actions whose outcomes are chosen nondeterministically.                 *)
(***************************************************************************)
EXTENDS Integers, Sequences, FiniteSets, TLC

\* ------------------------------------------------------------------ bounds

\* Number of stack deployments in one behaviour.
MaxDeploys == 3

\* -------------------------------------------------------------------- state

VARIABLES
  stack,            \* which stack is deployed: the example stack, or one that
                    \* uses the construct and declares no dependency
  phase,            \* "idle" | "deploying": whether a stack deployment runs
  deployCount,      \* deployments started so far
  deployStatus,     \* "none" | "IN_PROGRESS" | "COMPLETE" | "ROLLBACK"
  target,           \* the template being deployed (Construct(props))
  deployed,         \* the template whose custom resource is provisioned
  dbCreated,        \* the database instance exists
  crPending,        \* the custom resource is still to be handled in this deployment
  response,         \* CdkResourceInitializer.response: getResponseField('Payload')
  inv,              \* the Lambda invoke call made by this deployment, if any
  pc,               \* position of the handler invocation
  secret,           \* what the secret store delivered, "none" before it did
  steps,            \* the operations the invocation has started, in order
  failure,          \* the error of the first failing operation, "none" if none
  dbResult,         \* the value the database client delivered for the script
  hres,             \* the value the handler's promise resolved with
  last,             \* how the custom resource was handled in the latest deployment
  deployedOutcome,  \* the outcome of the invocation made for `deployed`
  watch,            \* one (function hash, payload) pair, fixed per behaviour
  watchInvocations, \* handler invocations made with the pair `watch`
  watchSwitches     \* custom resource creations/updates that moved to `watch`

vars ==
  << stack, phase, deployCount, deployStatus, target, deployed, dbCreated,
     crPending, response, inv, pc, secret, steps, failure, dbResult, hres, last,
     deployedOutcome, watch, watchInvocations, watchSwitches >>

deployVars == << phase, deployCount, deployStatus, target, deployed, dbCreated,
                 crPending, response, last, deployedOutcome >>

handlerVars == << pc, secret, steps, failure, dbResult, hres >>

watchVars == << watchInvocations, watchSwitches >>

\* ------------------------------------------------------- construction inputs

\* The value of a property whose JavaScript value is undefined.
Undefined == "<undefined>"

\* props.fnMemorySize || 128 (0 stands for a missing or zero fnMemorySize).
DefaultMemorySize == 128

\* The id the example stack gives the construct.
id == "MyRdsInit"

\* Image assets of the handler directory (index.js, script.sql, Dockerfile).
FnCodes == {"imgA", "imgB"}

\* props.fnMemorySize: missing (0), or given.
FnMemorySizes == {0, DefaultMemorySize}

\* props.config: an object, as the sequence of its own properties in insertion
\* order. Any value is admitted (config: any), undefined included.
Configs ==
  { << <<"credsSecretName", "x">> >>,
    << <<"credsSecretName", "y">> >>,
    << <<"credsSecretName", "x">>, <<"extra", Undefined>> >> }

Props == [fnCode : FnCodes, fnMemorySize : FnMemorySizes, config : Configs]

\* ------------------------------------------------ CdkResourceInitializer

\* JSON.stringify of a string.
Quote(s) == "\"" \o s \o "\""

RECURSIVE Members(_, _)
\* JSON.stringify of an object's properties: insertion order, comma separated,
\* a property whose value is undefined is left out.
Members(obj, first) ==
  IF obj = << >> THEN ""
  ELSE LET kv == Head(obj)
       IN  IF kv[2] = Undefined
           THEN Members(Tail(obj), first)
           ELSE (IF first THEN "" ELSE ",") \o Quote(kv[1]) \o ":" \o Quote(kv[2])
                \o Members(Tail(obj), FALSE)

JSONstringify(obj) == "{" \o Members(obj, TRUE) \o "}"

\* createHash('md5').update(s).digest('hex'), kept symbolic: the digest of s is
\* the term md5(s), so two digests are equal exactly when their inputs are.
md5(s) == "md5(" \o s \o ")"

\* new lambda.DockerImageFunction(this, 'ResourceInitializerFn', {...}): the
\* properties of the function resource that the construction inputs decide.
fn(props) ==
  [ memorySize   |-> IF props.fnMemorySize = 0 THEN DefaultMemorySize
                     ELSE props.fnMemorySize,
    functionName |-> id \o "ResourceInitializerFn",
    code         |-> props.fnCode ]

\* calculateFunctionHash(fn): the digest of the function resource's properties.
calculateFunctionHash(f) ==
  md5(f.functionName \o "|" \o f.code \o "|" \o ToString(f.memorySize))

payload_NoConfig(props) == "{\"params\":{}}"

\* const payload = JSON.stringify({ params: { config: props.config } })
payload(props) == "{\"params\":{\"config\":" \o JSONstringify(props.config) \o "}}"

physicalResIdHash_PayloadOnly(props) == md5(payload(props))

physicalResIdHash_Stamped(props) ==
  md5(calculateFunctionHash(fn(props)) \o payload(props) \o ToString(deployCount))

\* createHash('md5').update(calculateFunctionHash(fn) + payload).digest('hex')
physicalResIdHash(props) == md5(calculateFunctionHash(fn(props)) \o payload(props))

\* const sdkCall: AwsSdkCall = {...}
sdkCall(props) ==
  [ service            |-> "Lambda",
    action             |-> "invoke",
    parameters         |-> [ FunctionName |-> fn(props).functionName,
                             Payload      |-> payload(props) ],
    physicalResourceId |-> id \o "-AwsSdkCall-" \o physicalResIdHash(props) ]

\* No call registered for a lifecycle event.
NoCall == [ service |-> "none" ]

customResource_OnCreateOnly(props) ==
  [ onCreate |-> sdkCall(props), onUpdate |-> NoCall, onDelete |-> NoCall ]

\* new AwsCustomResource(this, 'AwsCustomResource', { onUpdate: sdkCall, ... }):
\* the call registered for each lifecycle event (onCreate defaults to onUpdate).
customResource(props) ==
  [ onCreate |-> sdkCall(props), onUpdate |-> sdkCall(props), onDelete |-> NoCall ]

\* What one construction synthesizes: the inputs, the function resource, and the
\* custom resource with its properties.
Construct(props) ==
  [ kind           |-> "template",
    props          |-> props,
    function       |-> fn(props),
    functionHash   |-> calculateFunctionHash(fn(props)),
    payload        |-> payload(props),
    token          |-> physicalResIdHash(props),
    customResource |-> customResource(props) ]

NoTemplate == [ kind |-> "none" ]

\* The (function hash, payload) pair of a template.
Pair(t) == << t.functionHash, t.payload >>

Pairs == { << calculateFunctionHash(fn(p)), payload(p) >> : p \in Props }

\* ------------------------------------------------------- the example stack

Stacks == { "RdsInitStackExample", "NoDependencyStack" }

DependsOnDb_None(s) == FALSE

\* initializer.customResource.node.addDependency(dbServer): the example stack
\* declares it; the construct itself declares none.
DependsOnDb(s) == s = "RdsInitStackExample"

\* ------------------------------------------------------------ the handler

\* What the secret store's callback delivers for config.credsSecretName.
SecretErrors == { "ResourceNotFoundException", "AccessDeniedException" }
SecretOutcomes == SecretErrors \cup { "credentials", "malformed", "null" }

\* What the database client's callback delivers for the script.
ConnectionErrors == { "ECONNREFUSED", "ER_ACCESS_DENIED_ERROR" }
ScriptErrors == { "ER_PARSE_ERROR" }
Results == { "rows1", "rows2" }

\* An error object: its code and its message.
Err(code) == [ code |-> code, message |-> "message of " \o code ]

NoResult == [ status |-> "none" ]
NoInvocation == [ kind |-> "none" ]

OkResult_Constant(res) == [ status |-> "OK", results |-> "rows1" ]

\* return { status: 'OK', results: res }
OkResult(res) == [ status |-> "OK", results |-> res ]

CatchResult_Ok(err) == [ status |-> "OK", results |-> err ]

\* catch (err) { return { status: 'ERROR', err, message: err.message } }
CatchResult(err) == [ status |-> "ERROR", err |-> err, message |-> err.message ]

\* The asynchronous function starts: const { config } = e.params, then
\* getSecretValue(config.credsSecretName) calls secrets.getSecretValue and the
\* handler awaits the promise.
HandlerStart ==
  /\ pc = "invoked"
  /\ pc' = "awaitSecret"
  /\ steps' = << "getSecretValue" >>
  /\ watchInvocations' =
       IF << inv.functionHash, inv.payload >> = watch
       THEN watchInvocations + 1 ELSE watchInvocations
  /\ UNCHANGED << secret, failure, dbResult, hres, watchSwitches, inv >>
  /\ UNCHANGED << stack, watch >>
  /\ UNCHANGED deployVars

\* The callback of secrets.getSecretValue, and what the handler does next without
\* waiting: on err the promise is rejected and the catch returns; on data,
\* JSON.parse(data.SecretString) runs inside the callback. A parsed value resolves
\* the promise: an object is destructured and the connection is created,
\* connect() is called, script.sql is read and query() sends it; null makes the
\* destructuring throw inside the try. A SyntaxError of JSON.parse is thrown in
\* the callback, outside the promise's executor and outside the try: the promise
\* is never settled, and the exception either ends the process or is swallowed by
\* the caller of the callback.
SecretCallback ==
  /\ pc = "awaitSecret"
  /\ \E o \in SecretOutcomes :
     /\ secret' = o
     /\
       \/ /\ o \in SecretErrors
          /\ failure' = o
          /\ hres' = CatchResult(Err(o))
          /\ pc' = "returned"
          /\ steps' = Append(steps, "return")
       \/ /\ o = "null"
          /\ failure' = "TypeError"
          /\ hres' = CatchResult(Err("TypeError"))
          /\ pc' = "returned"
          /\ steps' = Append(steps, "return")
       \/ /\ o = "malformed"
          /\ failure' = "SyntaxError"
          /\ hres' = NoResult
          /\ pc' \in { "crashed", "unsettled" }
          /\ steps' = steps
       \/ /\ o = "credentials"
          /\ failure' = failure
          /\ hres' = hres
          /\ pc' = "awaitQuery"
          /\ steps' = steps \o << "createConnection", "connect", "query" >>
  /\ UNCHANGED << dbResult, inv, stack, watch >>
  /\ UNCHANGED watchVars
  /\ UNCHANGED deployVars

QueryCallback_Retry ==
  /\ pc = "awaitQuery"
  /\ \E o \in ConnectionErrors \cup ScriptErrors \cup Results :
       IF o \in Results
       THEN /\ dbResult' = o
            /\ hres' = OkResult(o)
            /\ pc' = "returned"
            /\ steps' = Append(steps, "return")
            /\ failure' = failure
       ELSE /\ Len(steps) < 6
            /\ steps' = Append(steps, "query")
            /\ UNCHANGED << dbResult, hres, pc, failure >>
  /\ UNCHANGED << secret, inv, stack, watch >>
  /\ UNCHANGED watchVars
  /\ UNCHANGED deployVars

\* The callback of connection.query, and the rest of the handler: connect() was
\* given no callback, so a failed handshake (a fatal error) is delivered to the
\* pending query's callback, like an error of the script itself. An error rejects
\* the promise and the catch returns; a result resolves it and the handler returns.
QueryCallback ==
  /\ pc = "awaitQuery"
  /\ \E o \in ConnectionErrors \cup ScriptErrors \cup Results :
       IF o \in Results
       THEN /\ dbResult' = o
            /\ hres' = OkResult(o)
            /\ failure' = failure
       ELSE /\ failure' = o
            /\ hres' = CatchResult(Err(o))
            /\ dbResult' = dbResult
  /\ pc' = "returned"
  /\ steps' = Append(steps, "return")
  /\ UNCHANGED << secret, inv, stack, watch >>
  /\ UNCHANGED watchVars
  /\ UNCHANGED deployVars

\* ------------------------------------------- the deployment of the stack

NoStep ==
  [ handled |-> FALSE, first |-> FALSE, fnChanged |-> FALSE,
    payloadChanged |-> FALSE, configChanged |-> FALSE, invoked |-> FALSE, prevOutcome |-> "none" ]

\* The lifecycle event the deployment engine sends the custom resource: Create
\* when it is not provisioned yet, Update when its properties (the calls it
\* registers) differ from the provisioned ones, none otherwise.
LifecycleEvent ==
  IF deployed = NoTemplate THEN "Create"
  ELSE IF deployed.customResource # target.customResource THEN "Update"
  ELSE "None"

\* The call the custom resource's provider makes for the event.
LifecycleCall ==
  CASE LifecycleEvent = "Create" -> target.customResource.onCreate
    [] LifecycleEvent = "Update" -> target.customResource.onUpdate
    [] OTHER -> NoCall

\* How the custom resource is handled in this deployment.
Step(invoked) ==
  [ handled        |-> TRUE,
    first          |-> deployed = NoTemplate,
    fnChanged      |-> deployed # NoTemplate /\ deployed.function # target.function,
    payloadChanged |-> /\ deployed # NoTemplate
                       /\ JSONstringify(deployed.props.config)
                            # JSONstringify(target.props.config),
    configChanged  |-> deployed # NoTemplate /\ deployed.props.config # target.props.config,
    invoked        |-> invoked,
    prevOutcome    |-> deployedOutcome ]

\* The payload of the Lambda invoke response: the handler's return value, or the
\* runtime's error document when the invocation ended without one.
InvokePayload ==
  CASE pc = "returned"  -> hres
    [] pc = "crashed"   -> [ errorType |-> "SyntaxError", errorMessage |-> "message of SyntaxError" ]
    [] pc = "unsettled" -> [ errorType |-> "TimedOut", errorMessage |-> "Task timed out" ]

Outcome(p) == IF "status" \in DOMAIN p THEN p.status ELSE "FunctionError"

\* cdk deploy of the stack built from `props`.
StartDeploy ==
  /\ phase = "idle"
  /\ deployCount < MaxDeploys
  /\ \E props \in Props : target' = Construct(props)
  /\ phase' = "deploying"
  /\ deployCount' = deployCount + 1
  /\ deployStatus' = "IN_PROGRESS"
  /\ crPending' = TRUE
  /\ inv' = NoInvocation
  /\ pc' = "idle"
  /\ secret' = "none"
  /\ steps' = << >>
  /\ failure' = "none"
  /\ dbResult' = "none"
  /\ hres' = NoResult
  /\ UNCHANGED << deployed, dbCreated, response, last, deployedOutcome, stack, watch >>
  /\ UNCHANGED watchVars

\* The deployment engine creates the database instance (new DatabaseInstance).
CreateDb ==
  /\ phase = "deploying"
  /\ ~dbCreated
  /\ dbCreated' = TRUE
  /\ UNCHANGED << phase, deployCount, deployStatus, target, deployed, crPending,
                  response, last, deployedOutcome, inv, stack, watch >>
  /\ UNCHANGED handlerVars
  /\ UNCHANGED watchVars

\* The engine may handle the custom resource once the resources it depends on exist.
CustomResourceReady ==
  /\ phase = "deploying"
  /\ crPending
  /\ pc = "idle"
  /\ DependsOnDb(stack) => dbCreated

\* The custom resource's properties are the provisioned ones, or no call is
\* registered for the event: nothing is invoked.
CustomResourceNoop ==
  /\ CustomResourceReady
  /\ LifecycleCall = NoCall
  /\ crPending' = FALSE
  /\ last' = Step(FALSE)
  /\ deployed' = target
  /\ watchSwitches' =
       IF Pair(target) = watch /\ Pair(deployed) # watch
       THEN watchSwitches + 1 ELSE watchSwitches
  /\ UNCHANGED << phase, deployCount, deployStatus, target, dbCreated, response,
                  deployedOutcome, inv, stack, watch, watchInvocations >>
  /\ UNCHANGED handlerVars

\* The provider makes the registered call: lambda.invoke(sdkCall.parameters).
CustomResourceInvoke ==
  /\ CustomResourceReady
  /\ LifecycleCall # NoCall
  /\ inv' = [ kind         |-> "invoke",
              functionHash |-> target.functionHash,
              payload      |-> LifecycleCall.parameters.Payload,
              dbCreated    |-> dbCreated ]
  /\ pc' = "invoked"
  /\ last' = Step(TRUE)
  /\ UNCHANGED << phase, deployCount, deployStatus, target, deployed, dbCreated,
                  crPending, response, deployedOutcome, stack, watch >>
  /\ UNCHANGED << secret, steps, failure, dbResult, hres >>
  /\ UNCHANGED watchVars

\* The invoke call itself fails (the provider may not invoke the function, or the
\* request never reaches it): the custom resource fails and the engine rolls the
\* deployment back; a stack that was being created is deleted.
InvokeTransportFail ==
  /\ phase = "deploying"
  /\ pc = "invoked"
  /\ pc' = "rejected"
  /\ phase' = "idle"
  /\ deployStatus' = "ROLLBACK"
  /\ crPending' = FALSE
  /\ dbCreated' = IF deployed = NoTemplate THEN FALSE ELSE dbCreated
  /\ UNCHANGED << deployCount, target, deployed, response, last, deployedOutcome,
                  inv, stack, watch >>
  /\ UNCHANGED << secret, steps, failure, dbResult, hres >>
  /\ UNCHANGED watchVars

\* The invoke call returns: the custom resource is provisioned with the new
\* properties and its response field 'Payload' is the invocation's payload.
InvokeReturns ==
  /\ phase = "deploying"
  /\ pc \in { "returned", "crashed", "unsettled" }
  /\ pc' = "done"
  /\ response' = InvokePayload
  /\ deployedOutcome' = Outcome(InvokePayload)
  /\ deployed' = target
  /\ crPending' = FALSE
  /\ watchSwitches' =
       IF Pair(target) = watch /\ (deployed = NoTemplate \/ Pair(deployed) # watch)
       THEN watchSwitches + 1 ELSE watchSwitches
  /\ UNCHANGED << phase, deployCount, deployStatus, target, dbCreated, last,
                  inv, stack, watch, watchInvocations >>
  /\ UNCHANGED << secret, steps, failure, dbResult, hres >>

\* Every resource of the stack is handled: the deployment completes. The
\* invocation it made, if any, is over and nothing of it is kept but the response.
FinishDeploy ==
  /\ phase = "deploying"
  /\ ~crPending
  /\ dbCreated
  /\ phase' = "idle"
  /\ deployStatus' = "COMPLETE"
  /\ inv' = NoInvocation
  /\ pc' = "idle"
  /\ secret' = "none"
  /\ steps' = << >>
  /\ failure' = "none"
  /\ dbResult' = "none"
  /\ hres' = NoResult
  /\ UNCHANGED << deployCount, target, deployed, dbCreated, crPending, response,
                  last, deployedOutcome, stack, watch >>
  /\ UNCHANGED watchVars

\* ------------------------------------------------------- the specification

Init ==
  /\ stack \in Stacks
  /\ phase = "idle"
  /\ deployCount = 0
  /\ deployStatus = "none"
  /\ target = NoTemplate
  /\ deployed = NoTemplate
  /\ dbCreated = FALSE
  /\ crPending = FALSE
  /\ response = NoResult
  /\ inv = NoInvocation
  /\ pc = "idle"
  /\ secret = "none"
  /\ steps = << >>
  /\ failure = "none"
  /\ dbResult = "none"
  /\ hres = NoResult
  /\ last = NoStep
  /\ deployedOutcome = "none"
  /\ watch \in Pairs
  /\ watchInvocations = 0
  /\ watchSwitches = 0

Next ==
  \/ StartDeploy
  \/ CreateDb
  \/ CustomResourceNoop
  \/ CustomResourceInvoke
  \/ InvokeTransportFail
  \/ HandlerStart
  \/ SecretCallback
  \/ QueryCallback
  \/ InvokeReturns
  \/ FinishDeploy

Spec == Init /\ [][Next]_vars

\* ------------------------------------------------------------- properties

Range(q) == { q[i] : i \in DOMAIN q }

IsPrefix(q, r) == Len(q) <= Len(r) /\ SubSeq(r, 1, Len(q)) = q

\* The handler has returned: its promise resolved with a value.
Returned == hres # NoResult

\* The failures claim C1 names: the secret is not found or access to it is denied,
\* the connection or the authentication fails, the script has an SQL error.
NamedFailures == SecretErrors \cup ConnectionErrors \cup ScriptErrors

\* C1: when the secret lookup fails (not found, access denied), the connection or
\* the authentication fails, or the script reports an SQL error, the handler has
\* returned {status: 'ERROR', err, message} with the failing operation's error
\* and its message; it has not thrown and has not returned status 'OK'.
C1_FailureReturnsErrorResponse ==
  failure \in NamedFailures =>
    /\ Returned
    /\ pc \in { "returned", "done" }
    /\ hres = [ status |-> "ERROR", err |-> Err(failure),
                message |-> "message of " \o failure ]

C1_Witness == failure = "ER_ACCESS_DENIED_ERROR" /\ pc = "returned"

\* C2: when the secret string is not valid JSON, the handler returns the
\* structured response {status: 'ERROR', err, message}; the invocation neither
\* stays unsettled nor ends with an uncaught exception.
C2_MalformedSecretReturnsErrorResponse ==
  secret = "malformed" =>
    /\ Returned
    /\ hres.status = "ERROR"

\* C3: when the secret resolves to credentials, the connection succeeds and the
\* script runs without error, the handler returns {status: 'OK', results: R}, R
\* the value the database client delivered, and no err or message field.
C3_SuccessReturnsClientResult ==
  /\ dbResult # "none" =>
       /\ Returned
       /\ dbResult \in Results
       /\ hres = [ status |-> "OK", results |-> dbResult ]
  /\ Returned /\ failure = "none" => dbResult # "none"

C3_Witness ==
  /\ pc = "returned"
  /\ secret = "credentials"
  /\ dbResult = "rows2"
  /\ hres.status = "OK"

\* C4 as stated: over the whole sequence of deployments, a pair that was ever
\* deployed has been used for exactly one handler invocation.
C4_ExactlyOncePerPair ==
  phase = "idle" /\ watchSwitches > 0 => watchInvocations = 1

\* C4 amended: the handler is invoked once each time a deployment moves the
\* custom resource to the pair (first provisioning included), so the invocations
\* made with a pair are as many as the deployments that moved to it.
C4_OncePerMoveToPair ==
  phase = "idle" => watchInvocations = watchSwitches

C4_Witness ==
  /\ phase = "idle"
  /\ deployStatus = "COMPLETE"
  /\ watchSwitches = 2
  /\ watchInvocations = 2

BothConstructed == deployed # NoTemplate /\ target # NoTemplate

\* C6 as stated: two constructions that differ in the function or in the config
\* have different tokens (and two that differ in neither have the same).
C6_TokenDiffersIfConfigDiffers ==
  BothConstructed =>
    /\ (deployed.function = target.function
          /\ deployed.props.config = target.props.config)
         => deployed.token = target.token
    /\ (deployed.function # target.function
          \/ deployed.props.config # target.props.config)
         => deployed.token # target.token

\* C6 amended: two constructions have the same token exactly when they have the
\* same function and the same serialized config.
C6_TokenDiffersIffPayloadDiffers ==
  BothConstructed =>
    ( deployed.token = target.token
        <=> /\ deployed.function = target.function
            /\ JSONstringify(deployed.props.config)
                 = JSONstringify(target.props.config) )

C6_Witness ==
  /\ BothConstructed
  /\ deployed.props.config # target.props.config
  /\ deployed.props.fnMemorySize # target.props.fnMemorySize
  /\ deployed.token = target.token

\* C7: when the handler ends with a failure of the secret resolution, of the
\* connection or of the script, the deployment is not rolled back and the
\* response output is the {status: 'ERROR', ...} value; a deployment is rolled
\* back only when the invoke call itself failed.
C7_LogicalFailureIsTheResponse ==
  /\ pc = "done" /\ failure # "none" =>
       /\ deployStatus # "ROLLBACK"
       /\ response = [ status |-> "ERROR", err |-> Err(failure),
                       message |-> "message of " \o failure ]
  /\ deployStatus = "ROLLBACK" => pc = "rejected"

FullSteps == << "getSecretValue", "createConnection", "connect", "query", "return" >>

EarlySteps == << "getSecretValue", "return" >>

\* C8: the invocation's operations start in the order secret fetch, connect,
\* query, return, each at most once; a connection is created only after the
\* secret store delivered credentials; the handler returns only after the
\* script's callback, or after the first failing step.
C8_StepsInOrderOnce ==
  /\ IsPrefix(steps, FullSteps) \/ IsPrefix(steps, EarlySteps)
  /\ "createConnection" \in Range(steps) => secret = "credentials"
  /\ "return" \in Range(steps) <=> Returned
  /\ Returned => (failure # "none" \/ dbResult # "none")

C8_Witness == steps = FullSteps /\ pc = "returned" /\ failure = "ER_PARSE_ERROR"

\* C9: in the example stack the handler is invoked only when the database
\* instance exists; the construct alone does not wait for it: without the
\* declared dependency the custom resource can be handled before the database
\* is created.
C9_ExampleInvokesAfterDb ==
  /\ stack = "RdsInitStackExample" /\ inv # NoInvocation => inv.dbCreated
  /\ ( /\ stack = "NoDependencyStack"
       /\ phase = "deploying" /\ crPending /\ pc = "idle" /\ ~dbCreated )
       => ENABLED (CustomResourceInvoke \/ CustomResourceNoop)

C9_Witness ==
  /\ stack = "RdsInitStackExample"
  /\ inv # NoInvocation
  /\ pc = "returned"

\* C10: after an invocation that returned {status: 'ERROR'}, a redeploy with the
\* same function and the same payload invokes nothing, and the outcome on record
\* stays the error.
C10_NoReinvocationAfterError ==
  ( /\ last.handled
    /\ ~last.first
    /\ last.prevOutcome = "ERROR"
    /\ ~last.fnChanged
    /\ ~last.payloadChanged )
  => /\ ~last.invoked
     /\ deployedOutcome = "ERROR"

C10_Witness ==
  /\ last.handled
  /\ ~last.first
  /\ last.prevOutcome = "ERROR"
  /\ ~last.fnChanged
  /\ ~last.payloadChanged
  /\ phase = "idle"
  /\ deployStatus = "COMPLETE"

====
